---------------------------- MODULE Spec2Model ----------------------------
(***************************************************************************)
(* Model of src/src/validator_health_monitor.py: the resilient fetcher     *)
(* (get_api_data), the record merger (collect_validator_records), the      *)
(* classifier (determine_health_status), the report assembler              *)
(* (prepare_report_data) and the sequential driver (main).                 *)
(*                                                                         *)
(* Python values are modelled as tagged records [t |-> <type>, ...];       *)
(* strings that the code compares or lower-cases are sequences of code     *)
(* points.  An exception that leaves a function is a result record whose   *)
(* kind is the exception class.                                            *)
(***************************************************************************)
EXTENDS Integers, Sequences, FiniteSets, TLC

VARIABLES
    config,         \* AppConfig of the run
    endpoint,       \* get_api_data: the endpoint argument
    fpc,            \* get_api_data: position in the function
    attempt,        \* get_api_data: the local `attempt`
    response,       \* get_api_data: body of the response that broke the loop
    fetch_result,   \* get_api_data: what the call returned or raised
    events,         \* observable effects in order: GETs, sleeps, prints, logs
    health_in,      \* determine_health_status: (jailed, missed_blocks)
    health,         \* determine_health_status: its result
    records,        \* prepare_report_data: the records argument
    stdout_unicode, \* whether sys.stdout.encoding can encode the emoji icons
    report,         \* prepare_report_data: the ReportData returned
    signing_info_map, \* collect_validator_records: first argument
    validators,     \* collect_validator_records: second argument
    collected,      \* collect_validator_records: what it returned or raised
    pc,             \* main: position in the function
    html_file       \* main: state of the HTML artefact on disk

vars == <<config, endpoint, fpc, attempt, response, fetch_result, events,
          health_in, health, records, stdout_unicode, report,
          signing_info_map, validators, collected, pc, html_file>>

fetch_vars == <<endpoint, fpc, attempt, response, fetch_result>>
classify_vars == <<health_in, health>>
report_vars == <<records, stdout_unicode, report>>
collect_vars == <<signing_info_map, validators, collected>>
main_vars == <<pc, html_file>>

None == [t |-> "None"]

(***************************************************************************)
(* Bounds of the model.                                                    *)
(***************************************************************************)
MaxRetries == 3
MaxRecords == 3
MaxValidators == 3
MaxMissed == 6
MaxThreshold == 5

(***************************************************************************)
(* Program constants.                                                      *)
(***************************************************************************)
DEFAULT_MISSED_BLOCKS_THRESHOLD == 500
DEFAULT_MAX_RETRIES == 3
DEFAULT_RETRY_BACKOFF_SECONDS == 2

SIGNING_INFOS_ENDPOINT == [path |-> "signing_infos", leading_slash |-> TRUE]
VALIDATORS_ENDPOINT == [path |-> "validators", leading_slash |-> TRUE]

\* AppConfig with its dataclass defaults
AppConfig ==
    [missed_blocks_threshold |-> DEFAULT_MISSED_BLOCKS_THRESHOLD,
     max_retries |-> DEFAULT_MAX_RETRIES,
     retry_backoff |-> DEFAULT_RETRY_BACKOFF_SECONDS,
     hide_healthy |-> FALSE,
     max_results |-> 0,
     html_output |-> None]

\* x ** n for the integer backoff bases of the model
RECURSIVE Pow(_, _)
Pow(x, n) == IF n <= 0 THEN 1 ELSE x * Pow(x, n - 1)


(***************************************************************************)
(* Python values.                                                          *)
(***************************************************************************)
Absent == [t |-> "absent"]                 \* the key is not in the dict
PyStr(s) == [t |-> "str", s |-> s]           \* s: sequence of code points
PyInt(n) == [t |-> "int", n |-> n]
PyBool(b) == [t |-> "bool", b |-> b]
PyFloat(x) == [t |-> "float", inf |-> FALSE, x |-> x]  \* x in 1/10000
FloatInf == [t |-> "float", inf |-> TRUE, x |-> 0]   \* json.loads("1e999")
PyList(items) == [t |-> "list", items |-> items]

IsDict(v) == v.t = "dict"
IsStr(v) == v.t = "str"
IsList(v) == v.t = "list"

\* d.get(k): None when the key is missing
Get(d, k) == IF k \in DOMAIN d /\ d[k] # Absent THEN d[k] ELSE None
\* d.get(k, default)
GetDefault(d, k, default) ==
    IF k \in DOMAIN d /\ d[k] # Absent THEN d[k] ELSE default

\* bool(v)
Truthy(v) ==
    CASE v.t = "None" -> FALSE
      [] v.t = "bool" -> v.b
      [] v.t = "int" -> v.n # 0
      [] v.t = "str" -> Len(v.s) > 0
      [] v.t = "list" -> Len(v.items) > 0
      [] v.t = "dict" -> \E k \in DOMAIN v : k # "t" /\ v[k] # Absent
      [] OTHER -> TRUE

\* a or b
Or(a, b) == IF Truthy(a) THEN a ELSE b

\* str.lower() on the ASCII letters of the model
LowerChar(c) == IF c >= 65 /\ c <= 90 THEN c + 32 ELSE c
Lower(s) == [i \in 1..Len(s) |-> LowerChar(s[i])]

\* Python's < on str: lexicographic on code points
RECURSIVE StrLess(_, _)
StrLess(a, b) ==
    IF Len(b) = 0 THEN FALSE
    ELSE IF Len(a) = 0 THEN TRUE
    ELSE IF Head(a) # Head(b) THEN Head(a) < Head(b)
    ELSE StrLess(Tail(a), Tail(b))

(***************************************************************************)
(* get_api_data                                                            *)
(***************************************************************************)
ApiClientError(msg) == [kind |-> "ApiClientError", msg |-> msg, data |-> None]
ValueErrorExc(msg) == [kind |-> "ValueError", msg |-> msg, data |-> None]
Returned(data) == [kind |-> "return", msg |-> "", data |-> data]
NoResult == [kind |-> "none", msg |-> "", data |-> None]

Event(ev, what, n, info) == [ev |-> ev, what |-> what, n |-> n, info |-> info]

\* what requests.get / raise_for_status can raise: all are RequestException
RequestExceptions == {"ConnectionError", "Timeout", "HTTPError"}

\* `if attempt >= max_retries`; the mutant allows one attempt too many
Exhausted_off_by_one(n, cfg) == n > cfg.max_retries

Exhausted(n, cfg) == n >= cfg.max_retries

\* entry of get_api_data: the endpoint check before the loop
CheckEndpoint ==
    /\ fpc = "entry"
    /\ IF ~endpoint.leading_slash
       THEN /\ fpc' = "raised"
            /\ fetch_result' = ValueErrorExc("Endpoint must start with '/'.")
            /\ UNCHANGED attempt
       ELSE /\ fpc' = "try"
            /\ attempt' = 1
            /\ UNCHANGED fetch_result
    /\ UNCHANGED <<config, endpoint, response, events>>
    /\ UNCHANGED <<classify_vars, report_vars, collect_vars, main_vars>>

\* the GET raises and attempt >= max_retries: raise ApiClientError
RequestFailsFinal ==
    /\ fpc = "try"
    /\ Exhausted(attempt, config)
    /\ \E exc \in RequestExceptions :
          events' = Append(events, Event("GET", endpoint.path, attempt, exc))
    /\ fpc' = "raised"
    /\ fetch_result' = ApiClientError("Failed to fetch data")
    /\ UNCHANGED <<config, endpoint, attempt, response>>
    /\ UNCHANGED <<classify_vars, report_vars, collect_vars, main_vars>>

\* sleep_for = retry_backoff ** (attempt - 1); the mutant takes the attempt
\* number as the exponent
sleep_for_exponent_attempt(cfg, n) == Pow(cfg.retry_backoff, n)

sleep_for(cfg, n) == Pow(cfg.retry_backoff, n - 1)

\* the GET raises and attempts are left: log, sleep, attempt += 1, continue
RequestFailsRetry ==
    /\ fpc = "try"
    /\ ~Exhausted(attempt, config)
    /\ \E exc \in RequestExceptions :
          events' = events \o
              <<Event("GET", endpoint.path, attempt, exc),
                Event("warning", endpoint.path, attempt, "retrying"),
                Event("sleep", endpoint.path, sleep_for(config, attempt), "")>>
    /\ attempt' = attempt + 1
    /\ UNCHANGED <<config, endpoint, fpc, response, fetch_result>>
    /\ UNCHANGED <<classify_vars, report_vars, collect_vars, main_vars>>

(***************************************************************************)
(* convert_pubkey_to_cons_address                                          *)
(***************************************************************************)
\* value of a base64 alphabet character, -1 for any other character
B64Index(c) ==
    IF c >= 65 /\ c <= 90 THEN c - 65
    ELSE IF c >= 97 /\ c <= 122 THEN c - 71
    ELSE IF c >= 48 /\ c <= 57 THEN c + 4
    ELSE IF c = 43 THEN 62
    ELSE IF c = 47 THEN 63
    ELSE -1

\* number of characters before the first "=" (code point 61)
RECURSIVE B64DataLen(_)
B64DataLen(s) ==
    IF Len(s) = 0 \/ Head(s) = 61 THEN 0 ELSE 1 + B64DataLen(Tail(s))

RECURSIVE B64Value(_, _)
B64Value(s, n) == IF n = 0 THEN 0 ELSE B64Value(s, n - 1) * 64 + B64Index(s[n])

\* base64.b64decode(s, validate=True): the bytes, or binascii.Error
B64Decode(s) ==
    LET d == B64DataLen(s)
        p == Len(s) - d
        wellformed ==
            /\ \A i \in 1..d : B64Index(s[i]) >= 0
            /\ \A i \in (d + 1)..Len(s) : s[i] = 61
            /\ \/ d % 4 = 0 /\ p = 0
               \/ d % 4 = 2 /\ p = 2
               \/ d % 4 = 3 /\ p = 1
        nbytes == (6 * d) \div 8
        v == B64Value(s, d) \div Pow(2, 6 * d - 8 * nbytes)
    IN IF ~wellformed
       THEN [ok |-> FALSE, bytes |-> <<>>]
       ELSE [ok |-> TRUE,
             bytes |-> [i \in 1..nbytes |-> (v \div Pow(256, nbytes - i)) % 256]]

\* "cosmosvalcons" and the bech32 separator "1"
HRP == <<99, 111, 115, 109, 111, 115, 118, 97, 108, 99, 111, 110, 115>>

\* bech32 data part of sha256(bytes)[:20].  The hash is not computed: the
\* data part is an uninterpreted injective image of the key bytes.
Bech32Data(bytes) == bytes

\* the address, or ValueError when the base64 payload is invalid
\* (convertbits(..., 8, 5) pads, so it never returns None on bytes)
convert_pubkey_to_cons_address(pubkey_b64) ==
    LET dec == B64Decode(pubkey_b64)
    IN IF ~dec.ok
       THEN [ok |-> FALSE, address |-> None]
       ELSE [ok |-> TRUE,
             address |-> PyStr(HRP \o <<49>> \o Bech32Data(dec.bytes))]

(***************************************************************************)
(* int() and float() on the values a JSON payload can hold                 *)
(***************************************************************************)
IsDigits(s) == Len(s) > 0 /\ \A i \in 1..Len(s) : s[i] >= 48 /\ s[i] <= 57

RECURSIVE DigitsValue(_, _)
DigitsValue(s, n) ==
    IF n = 0 THEN 0 ELSE DigitsValue(s, n - 1) * 10 + (s[n] - 48)

\* int(v): exc is the exception class when it raises, "" when it returns n
IntOf(v) ==
    CASE v.t = "int" -> [exc |-> "", n |-> v.n]
      [] v.t = "bool" -> [exc |-> "", n |-> IF v.b THEN 1 ELSE 0]
      [] v.t = "str" ->
            IF IsDigits(v.s) THEN [exc |-> "", n |-> DigitsValue(v.s, Len(v.s))]
            ELSE [exc |-> "ValueError", n |-> 0]
      [] v.t = "float" ->
            IF v.inf THEN [exc |-> "OverflowError", n |-> 0]
            ELSE [exc |-> "", n |-> v.x \div 10000]
      [] OTHER -> [exc |-> "TypeError", n |-> 0]

\* position of the first "." (code point 46) in s, 0 if none
RECURSIVE DotPos(_, _)
DotPos(s, i) ==
    IF i > Len(s) THEN 0 ELSE IF s[i] = 46 THEN i ELSE DotPos(s, i + 1)

\* float(v), for decimal strings of at most 4 decimals
FloatOf(v) ==
    CASE v.t = "int" -> [exc |-> "", x |-> PyFloat(v.n * 10000)]
      [] v.t = "str" ->
            LET dot == DotPos(v.s, 1)
                ip == IF dot = 0 THEN v.s ELSE SubSeq(v.s, 1, dot - 1)
                fp == IF dot = 0 THEN <<>> ELSE SubSeq(v.s, dot + 1, Len(v.s))
                fp4 == fp \o [i \in 1..(4 - Len(fp)) |-> 48]
            IN IF /\ Len(ip) + Len(fp) > 0
                  /\ Len(fp) <= 4
                  /\ (Len(ip) = 0 \/ IsDigits(ip))
                  /\ (Len(fp) = 0 \/ IsDigits(fp))
               THEN [exc |-> "",
                     x |-> PyFloat(DigitsValue(ip, Len(ip)) * 10000
                                  + DigitsValue(fp4, 4))]
               ELSE [exc |-> "ValueError", x |-> None]
      [] v.t = "float" -> [exc |-> "", x |-> v]
      [] OTHER -> [exc |-> "TypeError", x |-> None]

(***************************************************************************)
(* collect_validator_records                                               *)
(***************************************************************************)
EmptyDict == [t |-> "dict"]
Unknown == <<85, 110, 107, 110, 111, 119, 110>>    \* "Unknown"

\* signing_info_map.get(consensus_address, {})
MapGet(map, address) ==
    IF address.s \in DOMAIN map THEN map[address.s] ELSE EmptyDict

\* One iteration of the loop over validators:
\*   kind "record": the record appended; kind "skip": the `continue` taken;
\*   kind "raise": an exception no handler of the function catches.
ValidatorStep(map, validator) ==
    LET description == Get(validator, "description")
        nested == IF IsDict(description) THEN Get(description, "moniker") ELSE None
        moniker == Or(Or(nested, Get(validator, "moniker")), PyStr(Unknown))
        consensus_pubkey == Or(Get(validator, "consensus_pubkey"), EmptyDict)
        pubkey_b64 == Get(consensus_pubkey, "key")
        derived == convert_pubkey_to_cons_address(pubkey_b64.s)
        signing_info == MapGet(map, derived.address)
        missed_blocks_raw ==
            GetDefault(signing_info, "missed_blocks_counter", PyStr(<<48>>))
        parsed == IntOf(missed_blocks_raw)
        missed_blocks == IF parsed.exc = "" THEN parsed.n ELSE 0
        commission == Get(validator, "commission")
        commission_rates ==
            IF IsDict(commission)
            THEN GetDefault(commission, "commission_rates", EmptyDict)
            ELSE EmptyDict
        rate == FloatOf(Get(commission_rates, "rate"))
        commission_rate == IF rate.exc = "" THEN rate.x ELSE None
        skip(why) == [kind |-> "skip", why |-> why, moniker |-> moniker, rec |-> None]
        raise(exc) == [kind |-> "raise", why |-> exc, moniker |-> moniker, rec |-> None]
    IN IF ~IsDict(consensus_pubkey) THEN raise("AttributeError")
       ELSE IF ~IsStr(pubkey_b64) THEN skip("without a valid consensus_pubkey")
       ELSE IF ~derived.ok THEN skip("Failed to derive consensus address")
       ELSE IF parsed.exc \notin {"", "TypeError", "ValueError"}
            THEN raise(parsed.exc)
       ELSE IF ~IsDict(commission_rates) THEN raise("AttributeError")
       ELSE IF rate.exc \notin {"", "TypeError", "ValueError"}
            THEN raise(rate.exc)
       ELSE [kind |-> "record", why |-> "", moniker |-> moniker,
             rec |-> [moniker |-> moniker.s,
                      operator_address |-> Get(validator, "operator_address"),
                      consensus_address |-> derived.address,
                      jailed |-> Truthy(Get(validator, "jailed")),
                      missed_blocks |-> missed_blocks,
                      commission_rate |-> commission_rate]]

\* the loop from validator i on, with the records and warnings so far
RECURSIVE CollectFrom(_, _, _, _, _)
CollectFrom(map, vs, i, recs, warnings) ==
    IF i > Len(vs)
    THEN [kind |-> "return", exc |-> "", records |-> recs, warnings |-> warnings]
    ELSE LET step == ValidatorStep(map, vs[i])
         IN CASE step.kind = "raise" ->
                    [kind |-> "raise", exc |-> step.why,
                     records |-> recs, warnings |-> warnings]
              [] step.kind = "skip" ->
                    CollectFrom(map, vs, i + 1, recs,
                                Append(warnings, [index |-> i, why |-> step.why]))
              [] OTHER ->
                    CollectFrom(map, vs, i + 1, Append(recs, step.rec), warnings)

collect_validator_records(map, vs) == CollectFrom(map, vs, 1, <<>>, <<>>)

(***************************************************************************)
(* Payload samples the inputs are drawn from.                              *)
(***************************************************************************)
KeyAAAA == <<65, 65, 65, 65>>        \* "AAAA": three zero bytes
KeyQUJD == <<81, 85, 74, 68>>        \* "QUJD": b"ABC"
KeyBadPadding == <<65>>              \* "A": not decodable
KeyBadChars == <<33, 33, 33, 33>>    \* "!!!!": not base64

Dict(fields) == fields @@ [t |-> "dict"]

Validator(description, moniker, consensus_pubkey, jailed, commission) ==
    [t |-> "dict", description |-> description, moniker |-> moniker,
     consensus_pubkey |-> consensus_pubkey, jailed |-> jailed,
     commission |-> commission, operator_address |-> PyStr(<<118>>)]

Rates(rate) == Dict([commission_rates |-> Dict([rate |-> rate])])

\* {"description": {"moniker": "a"}, "consensus_pubkey": {"key": "AAAA"},
\*  "jailed": false, "commission": {"commission_rates": {"rate": "0.05"}}}
V_a == Validator(Dict([moniker |-> PyStr(<<97>>)]), Absent,
                 Dict([key |-> PyStr(KeyAAAA)]), PyBool(FALSE),
                 Rates(PyStr(<<48, 46, 48, 53>>)))
\* flat moniker "B", jailed, no commission
V_B_jailed == Validator(Absent, PyStr(<<66>>),
                        Dict([key |-> PyStr(KeyQUJD)]), PyBool(TRUE), Absent)
\* no moniker at all, commission rate not a number
V_unnamed == Validator(PyStr(<<100>>), Absent,
                       Dict([key |-> PyStr(KeyQUJD)]), Absent,
                       Rates(PyStr(<<120>>)))
\* no consensus_pubkey
V_nokey == Validator(Absent, PyStr(<<98>>), Absent, PyBool(FALSE), Absent)
\* "consensus_pubkey": {"key": 5}
V_key_not_str == Validator(Absent, PyStr(<<98>>), Dict([key |-> PyInt(5)]),
                           PyBool(FALSE), Absent)
\* undecodable keys
V_bad_padding == Validator(Absent, PyStr(<<98>>),
                           Dict([key |-> PyStr(KeyBadPadding)]),
                           PyBool(FALSE), Absent)
V_bad_chars == Validator(Absent, PyStr(<<98>>),
                         Dict([key |-> PyStr(KeyBadChars)]),
                         PyBool(TRUE), Absent)
\* "consensus_pubkey": "AAAA" (the key where the object is expected)
V_pubkey_is_str == Validator(Absent, PyStr(<<98>>), PyStr(KeyAAAA),
                             PyBool(FALSE), Absent)
\* "commission": {"commission_rates": null}
V_rates_null == Validator(Absent, PyStr(<<98>>),
                          Dict([key |-> PyStr(KeyAAAA)]), PyBool(FALSE),
                          Dict([commission_rates |-> None]))

ValidatorSamples ==
    {V_a, V_B_jailed, V_unnamed, V_nokey, V_key_not_str, V_bad_padding,
     V_bad_chars, V_pubkey_is_str, V_rates_null}

AddrAAAA == convert_pubkey_to_cons_address(KeyAAAA).address
AddrQUJD == convert_pubkey_to_cons_address(KeyQUJD).address

SigningEntry(address, counter) ==
    [t |-> "dict", address |-> address, missed_blocks_counter |-> counter]

\* all sequences over S of length at most n
SeqsUpTo(S, n) == UNION {[1..k -> S] : k \in 0..n}

(***************************************************************************)
(* fetch_signing_info_map / fetch_active_validators, after get_api_data    *)
(***************************************************************************)
\* the loop that indexes the entries by address; later entries overwrite
RECURSIVE IndexByAddress(_, _)
IndexByAddress(entries, n) ==
    IF n = 0 THEN <<>>
    ELSE LET map == IndexByAddress(entries, n - 1)
             entry == entries[n]
             address == IF IsDict(entry) THEN Get(entry, "address") ELSE None
         IN IF IsDict(entry) /\ IsStr(address)
            THEN [a \in DOMAIN map \cup {address.s} |->
                     IF a = address.s THEN entry ELSE map[a]]
            ELSE map

signing_info_map_of(payload) ==
    LET signing_infos == Get(payload, "info")
    IN IF signing_infos = None
       THEN ApiClientError("Field 'info' is missing from the signing infos payload.")
       ELSE IF ~IsList(signing_infos)
       THEN ApiClientError("Field 'info' should be a list.")
       ELSE Returned(IndexByAddress(signing_infos.items, Len(signing_infos.items)))

active_validators_of(payload) ==
    LET vs == Get(payload, "validators")
    IN IF vs = None
       THEN ApiClientError("Field 'validators' is missing from the validators payload.")
       ELSE IF ~IsList(vs)
       THEN ApiClientError("Field 'validators' should be a list.")
       ELSE Returned(SelectSeq(vs.items, IsDict))

(***************************************************************************)
(* Idle values of the parts a specification does not exercise.             *)
(***************************************************************************)
NoHealth == [status |-> "", reason |-> ""]
NoReport == [kind |-> "none"]
NoCollected == [kind |-> "none", exc |-> "", records |-> <<>>, warnings |-> <<>>]

FetchIdle ==
    /\ endpoint = SIGNING_INFOS_ENDPOINT
    /\ fpc = "idle"
    /\ attempt = 0
    /\ response = None
    /\ fetch_result = NoResult

ClassifyIdle == health_in = [jailed |-> FALSE, missed_blocks |-> 0] /\ health = NoHealth

ReportIdle == records = <<>> /\ stdout_unicode = TRUE /\ report = NoReport

CollectIdle == signing_info_map = <<>> /\ validators = <<>> /\ collected = NoCollected

MainIdle == pc = "idle" /\ html_file = "absent"

(***************************************************************************)
(* determine_health_status                                                 *)
(***************************************************************************)
\* the mutant flags missed_blocks = threshold already
determine_health_status_ge(jailed, missed_blocks, cfg) ==
    IF jailed THEN [status |-> "JAILED", reason |-> "Validator jailed"]
    ELSE IF missed_blocks >= cfg.missed_blocks_threshold
         THEN [status |-> "AT_RISK", reason |-> "High missed blocks"]
    ELSE [status |-> "HEALTHY", reason |-> "All checks passed"]

determine_health_status(jailed, missed_blocks, cfg) ==
    IF jailed THEN [status |-> "JAILED", reason |-> "Validator jailed"]
    ELSE IF missed_blocks > cfg.missed_blocks_threshold
         THEN [status |-> "AT_RISK", reason |-> "High missed blocks"]
    ELSE [status |-> "HEALTHY", reason |-> "All checks passed"]

InitClassify ==
    /\ \E T \in 0..MaxThreshold :
          config = [AppConfig EXCEPT !.missed_blocks_threshold = T]
    /\ \E j \in BOOLEAN, m \in 0..MaxMissed :
          health_in = [jailed |-> j, missed_blocks |-> m]
    /\ health = NoHealth
    /\ events = <<>>
    /\ FetchIdle /\ ReportIdle /\ CollectIdle /\ MainIdle

Classify ==
    /\ health = NoHealth
    /\ health' = determine_health_status(health_in.jailed,
                                         health_in.missed_blocks, config)
    /\ UNCHANGED <<config, events, health_in>>
    /\ UNCHANGED <<fetch_vars, report_vars, collect_vars, main_vars>>

SpecClassify == InitClassify /\ [][Classify]_vars

(***************************************************************************)
(* Specification of collect_validator_records on sample payloads.          *)
(***************************************************************************)
SigningInfoLists ==
    {<<>>,
     <<SigningEntry(AddrAAAA, PyStr(<<55>>))>>,
     <<SigningEntry(AddrAAAA, PyStr(<<120>>)), SigningEntry(AddrQUJD, Absent)>>,
     <<SigningEntry(AddrAAAA, PyStr(<<120>>)), PyInt(1),
       SigningEntry(AddrAAAA, PyInt(9)), SigningEntry(AddrQUJD, FloatInf)>>}

InitCollect ==
    /\ config = AppConfig
    /\ \E l \in SigningInfoLists : signing_info_map = IndexByAddress(l, Len(l))
    /\ validators \in SeqsUpTo(ValidatorSamples, MaxValidators)
    /\ collected = NoCollected
    /\ events = <<>>
    /\ FetchIdle /\ ClassifyIdle /\ ReportIdle /\ MainIdle

Collect ==
    /\ collected = NoCollected
    /\ collected' = collect_validator_records(signing_info_map, validators)
    /\ UNCHANGED <<config, events, signing_info_map, validators>>
    /\ UNCHANGED <<fetch_vars, classify_vars, report_vars, main_vars>>

SpecCollect == InitCollect /\ [][Collect]_vars

(***************************************************************************)
(* prepare_report_data                                                     *)
(***************************************************************************)
STATUS_ICONS ==
    [JAILED |-> "U+274C", AT_RISK |-> "U+26A0 U+FE0F", HEALTHY |-> "U+2705"]
STATUS_ICONS_ASCII == [JAILED |-> "X", AT_RISK |-> "!", HEALTHY |-> "+"]

status_order == [JAILED |-> 0, AT_RISK |-> 1, HEALTHY |-> 2]

\* the icon if the console encoding can encode it, otherwise its ASCII form
resolve_status_icon(status, unicode) ==
    IF unicode THEN STATUS_ICONS[status] ELSE STATUS_ICONS_ASCII[status]

\* sort_key: (status_order of the tier, moniker.lower()); the mutant
\* compares the moniker as written
sort_key_case_sensitive(entry, cfg) ==
    <<status_order[determine_health_status(entry.jailed, entry.missed_blocks,
                                           cfg).status],
      entry.moniker>>

sort_key(entry, cfg) ==
    <<status_order[determine_health_status(entry.jailed, entry.missed_blocks,
                                           cfg).status],
      Lower(entry.moniker)>>

\* Python's < on the key tuples
KeyLess(k1, k2) == k1[1] < k2[1] \/ (k1[1] = k2[1] /\ StrLess(k1[2], k2[2]))

\* sorted() is stable: x goes after every element whose key is not greater
RECURSIVE InsertSorted(_, _, _)
InsertSorted(x, s, cfg) ==
    IF Len(s) = 0 THEN <<x>>
    ELSE IF KeyLess(sort_key(x, cfg), sort_key(Head(s), cfg)) THEN <<x>> \o s
    ELSE <<Head(s)>> \o InsertSorted(x, Tail(s), cfg)

RECURSIVE SortedPrefix(_, _, _)
SortedPrefix(recs, n, cfg) ==
    IF n = 0 THEN <<>>
    ELSE InsertSorted(recs[n], SortedPrefix(recs, n - 1, cfg), cfg)

\* sorted(records, key=sort_key); the mutant caps the raw input first
Sorted_cap_first(recs, cfg) ==
    SortedPrefix(recs,
                 IF cfg.max_results # 0 /\ cfg.max_results < Len(recs)
                 THEN cfg.max_results ELSE Len(recs),
                 cfg)

Sorted(recs, cfg) == SortedPrefix(recs, Len(recs), cfg)

\* decimal digits of n >= 0
RECURSIVE Digits(_)
Digits(n) == IF n < 10 THEN <<48 + n>> ELSE Digits(n \div 10) \o <<48 + (n % 10)>>

\* f"{commission_rate * 100:.2f}%" or "N/A"
CommissionDisplay(commission_rate) ==
    IF commission_rate = None THEN <<78, 47, 65>>
    ELSE IF commission_rate.inf THEN <<105, 110, 102, 37>>
    ELSE Digits(commission_rate.x \div 100) \o <<46>>
         \o <<48 + ((commission_rate.x % 100) \div 10),
              48 + (commission_rate.x % 10)>> \o <<37>>

ReportRow(record, health_of, unicode) ==
    [status |-> health_of.status,
     icon_text |-> resolve_status_icon(health_of.status, unicode),
     icon_html |-> STATUS_ICONS[health_of.status],
     moniker |-> record.moniker,
     missed_blocks |-> record.missed_blocks,
     commission_display |-> CommissionDisplay(record.commission_rate),
     reason |-> health_of.reason]

\* `if config.hide_healthy and status == "HEALTHY": continue`
Hidden_never(cfg, status) == FALSE

Hidden(cfg, status) == cfg.hide_healthy /\ status = "HEALTHY"

\* status_counts[status] += 1 on a defaultdict(int); the mutant forgets
\* the previous count
Bump_reset(counts, status) ==
    [s \in DOMAIN counts \cup {status} |-> IF s = status THEN 1 ELSE counts[s]]

Bump(counts, status) ==
    [s \in DOMAIN counts \cup {status} |->
        IF s = status
        THEN (IF s \in DOMAIN counts THEN counts[s] ELSE 0) + 1
        ELSE counts[s]]

\* `if config.max_results and len(rows) >= config.max_results: break`
CapReached_off_by_one(cfg, rows) ==
    cfg.max_results # 0 /\ Len(rows) > cfg.max_results

CapReached(cfg, rows) == cfg.max_results # 0 /\ Len(rows) >= cfg.max_results

\* the for loop over the sorted records, from position i on
RECURSIVE ReportLoop(_, _, _, _, _, _)
ReportLoop(sorted, i, rows, counts, cfg, unicode) ==
    IF i > Len(sorted) THEN [rows |-> rows, status_counts |-> counts]
    ELSE LET record == sorted[i]
             health_of == determine_health_status(record.jailed,
                                                  record.missed_blocks, cfg)
             rows2 == Append(rows, ReportRow(record, health_of, unicode))
             counts2 == Bump(counts, health_of.status)
         IN IF Hidden(cfg, health_of.status)
            THEN ReportLoop(sorted, i + 1, rows, counts, cfg, unicode)
            ELSE IF CapReached(cfg, rows2)
            THEN [rows |-> rows2, status_counts |-> counts2]
            ELSE ReportLoop(sorted, i + 1, rows2, counts2, cfg, unicode)

prepare_report_data(recs, cfg, unicode) ==
    LET total_records == Len(recs)
        loop == ReportLoop(Sorted(recs, cfg), 1, <<>>, <<>>, cfg, unicode)
    IN [kind |-> "ReportData",
        rows |-> loop.rows,
        status_counts |-> loop.status_counts,
        total_records |-> total_records,
        total_shown |-> Len(loop.rows),
        filtered_out_healthy |->
            cfg.hide_healthy /\ total_records > 0 /\ Len(loop.rows) = 0]

(***************************************************************************)
(* Specification of prepare_report_data on bounded record lists.           *)
(***************************************************************************)
Monikers == {<<97>>, <<66>>, <<98>>}     \* "a", "B", "b"

Record(moniker, jailed, missed_blocks, commission_rate) ==
    [moniker |-> moniker, operator_address |-> PyStr(<<118>>),
     consensus_address |-> AddrAAAA, jailed |-> jailed,
     missed_blocks |-> missed_blocks, commission_rate |-> commission_rate]

RecordUniverse ==
    {Record(m, TRUE, 2, None) : m \in Monikers}
    \cup {Record(m, FALSE, 1, PyFloat(500)) : m \in Monikers}
    \cup {Record(m, FALSE, 2, PyFloat(1234)) : m \in Monikers}

InitReport ==
    /\ \E h \in BOOLEAN, n \in 0..MaxRecords, T \in {1, 2} :
          config = [AppConfig EXCEPT !.hide_healthy = h, !.max_results = n,
                                     !.missed_blocks_threshold = T]
    /\ records \in SeqsUpTo(RecordUniverse, MaxRecords)
    /\ stdout_unicode \in BOOLEAN
    /\ report = NoReport
    /\ events = <<>>
    /\ FetchIdle /\ ClassifyIdle /\ CollectIdle /\ MainIdle

PrepareReport ==
    /\ report = NoReport
    /\ report' = prepare_report_data(records, config, stdout_unicode)
    /\ UNCHANGED <<config, events, records, stdout_unicode>>
    /\ UNCHANGED <<fetch_vars, classify_vars, collect_vars, main_vars>>

SpecReport == InitReport /\ [][PrepareReport]_vars

(***************************************************************************)
(* Properties of determine_health_status (SpecClassify).                   *)
(***************************************************************************)
Tiers == {"JAILED", "AT_RISK", "HEALTHY"}

\* C3: every (jailed, missed_blocks, threshold) gets exactly one tier:
\* JAILED iff jailed, whatever missed_blocks is; AT_RISK iff not jailed and
\* missed_blocks > threshold; HEALTHY iff not jailed and missed_blocks <=
\* threshold (so missed_blocks = T is HEALTHY and T + 1 is AT_RISK).
C3_ExactlyOneTier ==
    health # NoHealth =>
        LET T == config.missed_blocks_threshold
            j == health_in.jailed
            m == health_in.missed_blocks
        IN /\ health.status \in Tiers
           /\ (health.status = "JAILED") <=> j
           /\ (health.status = "AT_RISK") <=> (~j /\ m > T)
           /\ (health.status = "HEALTHY") <=> (~j /\ m <= T)
           /\ (~j /\ m = T) => health.status = "HEALTHY"
           /\ (~j /\ m = T + 1) => health.status = "AT_RISK"

\* a jailed validator with no missed blocks has been classified JAILED
C3_Witness ==
    /\ health.status = "JAILED"
    /\ health_in.jailed
    /\ health_in.missed_blocks = 0
    /\ config.missed_blocks_threshold > 0

(***************************************************************************)
(* Properties of prepare_report_data (SpecReport).                         *)
(***************************************************************************)
Returned_report == report # NoReport /\ report.kind = "ReportData"

TierRank(status) ==
    CASE status = "JAILED" -> 0 [] status = "AT_RISK" -> 1 [] OTHER -> 2

TierOf(record) ==
    determine_health_status(record.jailed, record.missed_blocks, config).status

\* number of elements of the sequence s that satisfy Test
CountIf(s, Test(_)) == Cardinality({i \in 1..Len(s) : Test(s[i])})

\* C4: in the emitted rows every JAILED row precedes every AT_RISK row,
\* which precedes every HEALTHY row, and rows of one tier are in ascending
\* order of the lower-cased moniker, for any hide_healthy and max_results.
C4_RowsOrdered ==
    Returned_report =>
        \A i, j \in 1..Len(report.rows) :
            i < j =>
                LET a == report.rows[i]
                    b == report.rows[j]
                IN /\ TierRank(a.status) <= TierRank(b.status)
                   /\ a.status = b.status
                        => ~StrLess(Lower(b.moniker), Lower(a.moniker))

\* three tiers are shown and "a" precedes "B" inside one tier although the
\* input had them the other way round
C4_Witness ==
    /\ Returned_report
    /\ Len(records) = 3
    /\ records[1].moniker = <<66>>
    /\ \E i \in 1..(Len(report.rows) - 1) :
          /\ report.rows[i].status = report.rows[i + 1].status
          /\ report.rows[i].moniker = <<97>>
          /\ report.rows[i + 1].moniker = <<66>>
    /\ \E i \in 1..Len(report.rows) :
          report.rows[i].status # report.rows[1].status

RECURSIVE SumCounts(_, _)
SumCounts(counts, keys) ==
    IF keys = {} THEN 0
    ELSE LET k == CHOOSE x \in keys : TRUE
         IN counts[k] + SumCounts(counts, keys \ {k})

\* C5: total_shown = len(rows) = sum of the status_counts values, and each
\* status_counts entry is the number of emitted rows of that tier.
C5_CountsMatchRows ==
    Returned_report =>
        /\ report.total_shown = Len(report.rows)
        /\ report.total_shown =
              SumCounts(report.status_counts, DOMAIN report.status_counts)
        /\ \A s \in DOMAIN report.status_counts :
              report.status_counts[s] =
                  CountIf(report.rows, LAMBDA r : r.status = s)
        /\ \A i \in 1..Len(report.rows) :
              report.rows[i].status \in DOMAIN report.status_counts

\* a capped, filtered report with two rows of one tier and one of another
C5_Witness ==
    /\ Returned_report
    /\ config.hide_healthy
    /\ report.total_shown = 3
    /\ \E s \in DOMAIN report.status_counts : report.status_counts[s] = 2
    /\ Cardinality(DOMAIN report.status_counts) = 2

AllHealthy == Len(records) > 0 /\ \A i \in 1..Len(records) : TierOf(records[i]) = "HEALTHY"

\* C6 as stated: on a non-empty all-HEALTHY input, hide_healthy gives
\* total_shown = 0 with the flag set, and without hide_healthy total_shown
\* is total_records.
C6_AllHealthy_Original ==
    (Returned_report /\ AllHealthy) =>
        /\ config.hide_healthy
              => (report.total_shown = 0 /\ report.filtered_out_healthy)
        /\ ~config.hide_healthy => report.total_shown = report.total_records

\* C6 amended: without hide_healthy total_shown is total_records unless
\* max_results caps it, and then it is max_results; the flag is set only
\* by hide_healthy.
C6_AllHealthy ==
    (Returned_report /\ AllHealthy) =>
        /\ config.hide_healthy
              => (report.total_shown = 0 /\ report.filtered_out_healthy)
        /\ ~config.hide_healthy =>
              /\ ~report.filtered_out_healthy
              /\ report.total_shown =
                    IF config.max_results > 0
                       /\ config.max_results < report.total_records
                    THEN config.max_results
                    ELSE report.total_records

\* two healthy validators, everything hidden
C6_Witness ==
    /\ Returned_report
    /\ AllHealthy
    /\ config.hide_healthy
    /\ report.total_records = 2
    /\ report.total_shown = 0
    /\ report.filtered_out_healthy

NotHidden(record) == ~(config.hide_healthy /\ TierOf(record) = "HEALTHY")

\* C7: with max_results = N > 0 at most N rows are emitted, status_counts
\* counts exactly the emitted rows, total_records is the size of the
\* whole record list; with max_results = 0 every row that is not hidden is
\* emitted.
C7_CapTruncates ==
    Returned_report =>
        /\ report.total_records = Len(records)
        /\ config.max_results > 0 =>
              /\ Len(report.rows) <= config.max_results
              /\ SumCounts(report.status_counts, DOMAIN report.status_counts)
                    <= config.max_results
              /\ \A s \in Tiers :
                    CountIf(report.rows, LAMBDA r : r.status = s) =
                        IF s \in DOMAIN report.status_counts
                        THEN report.status_counts[s] ELSE 0
        /\ config.max_results = 0 =>
              Len(report.rows) = CountIf(records, NotHidden)

\* three records capped to two rows
C7_Witness ==
    /\ Returned_report
    /\ config.max_results = 2
    /\ report.total_records = 3
    /\ Len(report.rows) = 2
    /\ CountIf(records, NotHidden) = 3

\* the first n elements of s
Take(s, n) == SubSeq(s, 1, IF n < Len(s) THEN n ELSE Len(s))

\* C8: the rows are the full sorted row list (hide_healthy off, no cap)
\* with the HEALTHY rows removed when hide_healthy is set, then cut to the
\* first max_results rows when max_results > 0.
C8_FilterKeepsOrder ==
    Returned_report =>
        LET full == prepare_report_data(
                        records,
                        [config EXCEPT !.hide_healthy = FALSE, !.max_results = 0],
                        stdout_unicode).rows
            kept == IF config.hide_healthy
                    THEN SelectSeq(full, LAMBDA r : r.status # "HEALTHY")
                    ELSE full
        IN report.rows = IF config.max_results > 0
                         THEN Take(kept, config.max_results)
                         ELSE kept

\* a healthy "a" comes first in the input, healthy rows are hidden and the
\* cap of 1 leaves the first unhealthy row of the sorted list
C8_Witness ==
    /\ Returned_report
    /\ config.hide_healthy
    /\ config.max_results = 1
    /\ Len(records) = 3
    /\ TierOf(records[1]) = "HEALTHY"
    /\ TierOf(records[2]) = "AT_RISK"
    /\ TierOf(records[3]) = "JAILED"
    /\ Len(report.rows) = 1
    /\ report.rows[1].status = "JAILED"

(***************************************************************************)
(* Properties of collect_validator_records (SpecCollect).                  *)
(***************************************************************************)
\* the validator has a consensus public key from which an address derives
HasDerivableKey(v) ==
    LET cp == Get(v, "consensus_pubkey")
    IN /\ IsDict(cp)
       /\ IsStr(Get(cp, "key"))
       /\ convert_pubkey_to_cons_address(Get(cp, "key").s).ok

\* C10: the batch is never aborted: validators without a usable consensus
\* public key are skipped, every other validator yields exactly one record,
\* and the records keep the input order.
C10_BatchNeverAborts ==
    collected # NoCollected =>
        /\ collected.kind = "return"
        /\ Len(collected.records) <= Len(validators)
        /\ LET kept == SelectSeq(validators, HasDerivableKey)
           IN /\ Len(collected.records) = Len(kept)
              /\ \A i \in 1..Len(kept) :
                    collected.records[i].consensus_address =
                        convert_pubkey_to_cons_address(
                            Get(Get(kept[i], "consensus_pubkey"), "key").s).address

(***************************************************************************)
(* get_api_data, continued: the successful response and its body.          *)
(***************************************************************************)
InvalidJson == [t |-> "invalid"]           \* response.json() raises

Payload(info, vs) == [t |-> "dict", info |-> info, validators |-> vs]

\* bodies a 2xx response can carry
Bodies ==
    {InvalidJson,
     PyList(<<>>),
     PyInt(1),
     Payload(Absent, Absent),
     Payload(PyStr(<<120>>), None),
     Payload(PyList(<<SigningEntry(AddrAAAA, PyStr(<<55>>)),
                      SigningEntry(AddrQUJD, PyStr(<<120>>))>>), Absent),
     Payload(Absent, PyList(<<V_a, PyInt(1), V_B_jailed, V_nokey>>)),
     Payload(PyList(<<>>), PyList(<<V_unnamed, V_a>>)),
     Payload(Absent, PyList(<<V_a, V_pubkey_is_str>>))}

\* the GET returns a 2xx response: break out of the loop
RequestSucceeds ==
    /\ fpc = "try"
    /\ \E body \in Bodies : response' = body
    /\ events' = Append(events, Event("GET", endpoint.path, attempt, "ok"))
    /\ fpc' = "parse"
    /\ UNCHANGED <<config, endpoint, attempt, fetch_result>>
    /\ UNCHANGED <<classify_vars, report_vars, collect_vars, main_vars>>

\* the mutant raises on a JSON object and returns anything else
ParseResponse_inverted_check ==
    /\ fpc = "parse"
    /\ IF response = InvalidJson
       THEN /\ fpc' = "raised"
            /\ fetch_result' = ApiClientError("Invalid JSON response")
       ELSE IF IsDict(response)
       THEN /\ fpc' = "raised"
            /\ fetch_result' = ApiClientError("Unexpected response type")
       ELSE /\ fpc' = "returned"
            /\ fetch_result' = Returned(response)
    /\ UNCHANGED <<config, endpoint, attempt, response, events>>
    /\ UNCHANGED <<classify_vars, report_vars, collect_vars, main_vars>>

\* the mutant returns whatever response.json() gives: the isinstance check
\* is missing
ParseResponse_no_type_check ==
    /\ fpc = "parse"
    /\ IF response = InvalidJson
       THEN /\ fpc' = "raised"
            /\ fetch_result' = ApiClientError("Invalid JSON response")
       ELSE /\ fpc' = "returned"
            /\ fetch_result' = Returned(response)
    /\ UNCHANGED <<config, endpoint, attempt, response, events>>
    /\ UNCHANGED <<classify_vars, report_vars, collect_vars, main_vars>>

\* response.json() and the isinstance(data, dict) check
ParseResponse ==
    /\ fpc = "parse"
    /\ IF response = InvalidJson
       THEN /\ fpc' = "raised"
            /\ fetch_result' = ApiClientError("Invalid JSON response")
       ELSE IF ~IsDict(response)
       THEN /\ fpc' = "raised"
            /\ fetch_result' = ApiClientError("Unexpected response type")
       ELSE /\ fpc' = "returned"
            /\ fetch_result' = Returned(response)
    /\ UNCHANGED <<config, endpoint, attempt, response, events>>
    /\ UNCHANGED <<classify_vars, report_vars, collect_vars, main_vars>>

get_api_data ==
    \/ CheckEndpoint
    \/ RequestFailsFinal
    \/ RequestFailsRetry
    \/ RequestSucceeds
    \/ ParseResponse

\* integer stand-ins for the positive retry_backoff bases
Backoffs == {1, 2, 3}

InitFetch ==
    /\ \E M \in 1..MaxRetries, b \in Backoffs :
          config = [AppConfig EXCEPT !.max_retries = M, !.retry_backoff = b]
    /\ endpoint \in {SIGNING_INFOS_ENDPOINT, VALIDATORS_ENDPOINT,
                     [path |-> "signing_infos", leading_slash |-> FALSE]}
    /\ fpc = "entry"
    /\ attempt = 0
    /\ response = None
    /\ fetch_result = NoResult
    /\ events = <<>>
    /\ ClassifyIdle /\ ReportIdle /\ CollectIdle /\ MainIdle

SpecFetch == InitFetch /\ [][get_api_data]_vars

(***************************************************************************)
(* Properties of get_api_data (SpecFetch).                                 *)
(***************************************************************************)
Gets == SelectSeq(events, LAMBDA e : e.ev = "GET")
Sleeps == SelectSeq(events, LAMBDA e : e.ev = "sleep")
FailedGets == SelectSeq(events, LAMBDA e : e.ev = "GET" /\ e.info # "ok")

\* C1: with max_retries = M >= 1, when every GET failed the call ends by
\* raising ApiClientError after exactly M attempts; the last event is the
\* M-th failed GET: no request and no sleep follows it.
C1_ExhaustionRaises ==
    /\ (fpc \in {"raised", "returned"} /\ Len(Gets) > 0 /\ FailedGets = Gets) =>
          /\ fpc = "raised"
          /\ fetch_result.kind = "ApiClientError"
          /\ Len(Gets) = config.max_retries
          /\ \A i \in 1..Len(Gets) : Gets[i].n = i
          /\ Len(Sleeps) = config.max_retries - 1
          /\ events[Len(events)].ev = "GET"
    /\ (fpc = "try" /\ FailedGets = Gets) => Len(Gets) < config.max_retries

\* three failures with max_retries = 3 and the error raised
C1_Witness ==
    /\ fpc = "raised"
    /\ config.max_retries = 3
    /\ fetch_result.kind = "ApiClientError"
    /\ Len(FailedGets) = 3

\* C2: when attempts 1..k-1 fail and attempt k (k <= M) succeeds with a
\* JSON object, the call returns that object without raising, having
\* issued exactly k requests.
C2_SuccessAfterFailures ==
    (fpc \in {"raised", "returned"} /\ Len(Gets) > 0
        /\ Gets[Len(Gets)].info = "ok" /\ IsDict(response)) =>
        LET k == Len(Gets)
        IN /\ fpc = "returned"
           /\ fetch_result = Returned(response)
           /\ k <= config.max_retries
           /\ Len(FailedGets) = k - 1
           /\ \A i \in 1..k : Gets[i].n = i
           /\ attempt = k

\* fail, fail, succeed with max_retries = 3 returns the payload
C2_Witness ==
    /\ fpc = "returned"
    /\ config.max_retries = 3
    /\ Len(Gets) = 3
    /\ Len(FailedGets) = 2
    /\ fetch_result.kind = "return"
    /\ IsDict(fetch_result.data)

(***************************************************************************)
(* main                                                                    *)
(***************************************************************************)
\* what print_validator_report writes to stdout
print_validator_report(rep) ==
    <<Event("print", "=== Validator Health Report ===", 0, "report")>>
    \o (IF rep.total_records = 0
        THEN <<Event("print", "No active validators found.", 0, "report")>>
        ELSE IF rep.total_shown = 0
        THEN IF rep.filtered_out_healthy
             THEN <<Event("print", "No unhealthy validators found", 0, "report")>>
             ELSE <<Event("print", "No validator records available.", 0, "report")>>
        ELSE [i \in 1..Len(rep.rows) |->
                 Event("print", rep.rows[i].status, i, "report")]
             \o <<Event("print", "Summary", rep.total_shown, "report")>>)

\* the call of get_api_data made by fetch_signing_info_map and
\* fetch_active_validators
CallGetApiData(ep) ==
    /\ endpoint' = ep
    /\ fpc' = "entry"
    /\ attempt' = 0
    /\ response' = None
    /\ fetch_result' = NoResult

FetchDone ==
    /\ fpc' = "idle"
    /\ UNCHANGED <<endpoint, attempt, response, fetch_result>>

\* argument checks passed, logging set up, AppConfig built: the first fetch
MainStart ==
    /\ pc = "start"
    /\ events' = Append(events, Event("info", "Validator monitor started.", 0, ""))
    /\ CallGetApiData(SIGNING_INFOS_ENDPOINT)
    /\ pc' = "fetch_signing"
    /\ UNCHANGED <<config, html_file>>
    /\ UNCHANGED <<classify_vars, report_vars, collect_vars>>

\* the mutant prints the failure and goes on (the `return` is missing)
SigningFetched_no_return ==
    /\ pc = "fetch_signing"
    /\ fpc \in {"returned", "raised"}
    /\ LET result == IF fetch_result.kind = "return"
                     THEN signing_info_map_of(fetch_result.data)
                     ELSE fetch_result
       IN IF result.kind = "ApiClientError"
          THEN /\ events' = events \o
                     <<Event("result", "fetch_signing_info_map", 0, result.kind),
                       Event("error", "Failed to fetch signing infos", 0, result.msg),
                       Event("print", "signing info retrieval failed", 0, "")>>
               /\ CallGetApiData(VALIDATORS_ENDPOINT)
               /\ pc' = "fetch_validators"
               /\ UNCHANGED signing_info_map
          ELSE /\ events' = events \o
                     <<Event("result", "fetch_signing_info_map", 0, result.kind),
                       Event("info", "Loaded signing info records.",
                             Cardinality(DOMAIN result.data), "")>>
               /\ signing_info_map' = result.data
               /\ CallGetApiData(VALIDATORS_ENDPOINT)
               /\ pc' = "fetch_validators"
    /\ UNCHANGED <<config, html_file, validators, collected>>
    /\ UNCHANGED <<classify_vars, report_vars>>

\* fetch_signing_info_map has returned or raised: the first try/except of
\* main and, on success, the call of fetch_active_validators
SigningFetched ==
    /\ pc = "fetch_signing"
    /\ fpc \in {"returned", "raised"}
    /\ LET result == IF fetch_result.kind = "return"
                     THEN signing_info_map_of(fetch_result.data)
                     ELSE fetch_result
       IN IF result.kind = "ApiClientError"
          THEN /\ events' = events \o
                     <<Event("result", "fetch_signing_info_map", 0, result.kind),
                       Event("error", "Failed to fetch signing infos", 0, result.msg),
                       Event("print", "signing info retrieval failed", 0, "")>>
               /\ FetchDone
               /\ pc' = "done"
               /\ UNCHANGED signing_info_map
          ELSE IF result.kind = "return"
          THEN /\ events' = events \o
                     <<Event("result", "fetch_signing_info_map", 0, result.kind),
                       Event("info", "Loaded signing info records.",
                             Cardinality(DOMAIN result.data), "")>>
               /\ signing_info_map' = result.data
               /\ CallGetApiData(VALIDATORS_ENDPOINT)
               /\ pc' = "fetch_validators"
          ELSE /\ events' = events \o
                     <<Event("result", "fetch_signing_info_map", 0, result.kind),
                       Event("traceback", result.kind, 0, "")>>
               /\ FetchDone
               /\ pc' = "crashed"
               /\ UNCHANGED signing_info_map
    /\ UNCHANGED <<config, html_file, validators, collected>>
    /\ UNCHANGED <<classify_vars, report_vars>>

\* fetch_active_validators has returned or raised: the second try/except
ValidatorsFetched ==
    /\ pc = "fetch_validators"
    /\ fpc \in {"returned", "raised"}
    /\ LET result == IF fetch_result.kind = "return"
                     THEN active_validators_of(fetch_result.data)
                     ELSE fetch_result
       IN IF result.kind = "ApiClientError"
          THEN /\ events' = events \o
                     <<Event("result", "fetch_active_validators", 0, result.kind),
                       Event("error", "Failed to fetch validators", 0, result.msg),
                       Event("print", "validator retrieval failed", 0, "")>>
               /\ pc' = "done"
               /\ UNCHANGED validators
          ELSE IF result.kind = "return"
          THEN /\ events' = events \o
                     <<Event("result", "fetch_active_validators", 0, result.kind),
                       Event("info", "Fetched bonded validators.",
                             Len(result.data), "")>>
               /\ validators' = result.data
               /\ pc' = "merge"
          ELSE /\ events' = events \o
                     <<Event("result", "fetch_active_validators", 0, result.kind),
                       Event("traceback", result.kind, 0, "")>>
               /\ pc' = "crashed"
               /\ UNCHANGED validators
    /\ FetchDone
    /\ UNCHANGED <<config, html_file, signing_info_map, collected>>
    /\ UNCHANGED <<classify_vars, report_vars>>

\* records = collect_validator_records(signing_info_map, validators); an
\* exception it raises is caught nowhere in main
MergeRecords ==
    /\ pc = "merge"
    /\ LET result == collect_validator_records(signing_info_map, validators)
           warnings == [i \in 1..Len(result.warnings) |->
                           Event("warning", result.warnings[i].why,
                                 result.warnings[i].index, "")]
       IN /\ collected' = result
          /\ IF result.kind = "raise"
             THEN /\ events' = events \o warnings
                                \o <<Event("traceback", result.exc, 0, "")>>
                  /\ pc' = "crashed"
             ELSE /\ events' = events \o warnings
                                \o <<Event("info", "Prepared merged validator records.",
                                           Len(result.records), "")>>
                  /\ pc' = "report"
    /\ UNCHANGED <<config, html_file, signing_info_map, validators>>
    /\ UNCHANGED <<fetch_vars, classify_vars, report_vars>>

\* report = prepare_report_data(...); print_validator_report(report)
PrintReport ==
    /\ pc = "report"
    /\ records' = collected.records
    /\ report' = prepare_report_data(collected.records, config, stdout_unicode)
    /\ events' = events
                 \o <<Event("info", "Report rows ready after filters.",
                            report'.total_shown, "")>>
                 \o print_validator_report(report')
    /\ pc' = IF Truthy(config.html_output) THEN "html" ELSE "done"
    /\ UNCHANGED <<config, html_file, stdout_unicode>>
    /\ UNCHANGED <<fetch_vars, classify_vars, collect_vars>>

\* the mutant has no `except OSError`: the failure ends the run
WriteHtml_oserror_uncaught ==
    /\ pc = "html"
    /\ \E oserror \in BOOLEAN :
          IF oserror
          THEN /\ events' = Append(events, Event("traceback", "OSError", 0, ""))
               /\ pc' = "crashed"
               /\ UNCHANGED html_file
          ELSE /\ events' = Append(events,
                      Event("info", "HTML report written", 0, ""))
               /\ html_file' = "written"
               /\ pc' = "done"
    /\ UNCHANGED config
    /\ UNCHANGED <<fetch_vars, classify_vars, report_vars, collect_vars>>

\* write_html_report inside try/except OSError: the write succeeds or the
\* file system refuses it
WriteHtml ==
    /\ pc = "html"
    /\ \E oserror \in BOOLEAN :
          IF oserror
          THEN /\ events' = Append(events,
                      Event("error", "Failed to write HTML report", 0, "OSError"))
               /\ UNCHANGED html_file
          ELSE /\ events' = Append(events,
                      Event("info", "HTML report written", 0, ""))
               /\ html_file' = "written"
    /\ pc' = "done"
    /\ UNCHANGED config
    /\ UNCHANGED <<fetch_vars, classify_vars, report_vars, collect_vars>>

main ==
    \/ MainStart
    \/ get_api_data
    \/ SigningFetched
    \/ ValidatorsFetched
    \/ MergeRecords
    \/ PrintReport
    \/ WriteHtml

InitMain ==
    /\ \E M \in {1, 2}, h \in BOOLEAN, n \in {0, 1},
          out \in {None, PyStr(<<114>>)} :
          config = [AppConfig EXCEPT !.max_retries = M, !.hide_healthy = h,
                                     !.max_results = n, !.html_output = out,
                                     !.missed_blocks_threshold = 5]
    /\ pc = "start"
    /\ html_file = "absent"
    /\ events = <<>>
    /\ FetchIdle /\ ClassifyIdle /\ ReportIdle /\ CollectIdle

SpecMain == InitMain /\ [][main]_vars

(***************************************************************************)
(* Properties of main (SpecMain).                                          *)
(***************************************************************************)
EventIdx(Test(_)) == {i \in 1..Len(events) : Test(events[i])}

SigningGets == EventIdx(LAMBDA e : e.ev = "GET" /\ e.what = "signing_infos")
ValidatorGets == EventIdx(LAMBDA e : e.ev = "GET" /\ e.what = "validators")
ReportPrints == EventIdx(LAMBDA e : e.ev = "print" /\ e.info = "report")
SigningFailurePrints ==
    EventIdx(LAMBDA e : e.ev = "print" /\ e.what = "signing info retrieval failed")
ValidatorFailurePrints ==
    EventIdx(LAMBDA e : e.ev = "print" /\ e.what = "validator retrieval failed")
SigningOk ==
    EventIdx(LAMBDA e : e.ev = "result" /\ e.what = "fetch_signing_info_map"
                        /\ e.info = "return")
SigningFailed ==
    EventIdx(LAMBDA e : e.ev = "result" /\ e.what = "fetch_signing_info_map"
                        /\ e.info # "return")
ValidatorsOk ==
    EventIdx(LAMBDA e : e.ev = "result" /\ e.what = "fetch_active_validators"
                        /\ e.info = "return")
ValidatorsFailed ==
    EventIdx(LAMBDA e : e.ev = "result" /\ e.what = "fetch_active_validators"
                        /\ e.info # "return")

\* C9: every signing-info GET precedes every validator GET; the merge and
\* the report come only after both fetches succeeded; a failed signing-info
\* fetch prints its message, fetches no validators and prints no report; a
\* failed validator fetch prints its message and prints no report.
C9_FetchOrderAndAbort ==
    /\ \A i \in SigningGets, j \in ValidatorGets : i < j
    /\ \A j \in ValidatorGets : \E i \in SigningOk : i < j
    /\ \A k \in ReportPrints :
          /\ \E i \in SigningOk : i < k
          /\ \E j \in ValidatorsOk : j < k
    /\ collected # NoCollected => (SigningOk # {} /\ ValidatorsOk # {})
    /\ SigningFailed # {} =>
          /\ SigningFailurePrints # {}
          /\ ValidatorGets = {}
          /\ ReportPrints = {}
          /\ collected = NoCollected
          /\ pc = "done"
    /\ ValidatorsFailed # {} =>
          /\ ValidatorFailurePrints # {}
          /\ SigningFailurePrints = {}
          /\ ReportPrints = {}
          /\ collected = NoCollected
          /\ pc = "done"
    /\ (pc \notin {"start", "fetch_signing"}
          /\ \A i \in SigningGets : events[i].info # "ok") =>
          (SigningFailurePrints # {} /\ ValidatorGets = {} /\ ReportPrints = {})
    /\ (pc \notin {"start", "fetch_signing", "fetch_validators"}
          /\ \A j \in ValidatorGets : events[j].info # "ok") =>
          (ReportPrints = {} /\ pc = "done"
             /\ (SigningFailurePrints # {} \/ ValidatorFailurePrints # {}))
    /\ (SigningFailurePrints # {} \/ ValidatorFailurePrints # {}) =>
          (ReportPrints = {} /\ pc = "done")

\* the signing infos were fetched on the second attempt, every validator
\* GET failed, and the run ended with the validator message and no report
C9_Witness ==
    /\ pc = "done"
    /\ Cardinality(SigningGets) = 2
    /\ SigningOk # {}
    /\ Cardinality(ValidatorGets) = 2
    /\ ValidatorsFailed # {}
    /\ ValidatorFailurePrints # {}
    /\ ReportPrints = {}

(***************************************************************************)
(* Further properties of get_api_data (SpecFetch).                         *)
(***************************************************************************)
\* C11: a 2xx response whose body is not a JSON object (invalid JSON, an
\* array, a scalar) ends the call with ApiClientError, the error kind of
\* retry exhaustion; the successful GET stays the last request, whatever
\* retry budget is left.
C11_BadBodyIsPermanent ==
    /\ (fpc \in {"raised", "returned"} /\ Len(Gets) > 0
          /\ Gets[Len(Gets)].info = "ok" /\ ~IsDict(response)) =>
          /\ fpc = "raised"
          /\ fetch_result.kind = "ApiClientError"
          /\ fetch_result.data = None
          /\ events[Len(events)].ev = "GET"
          /\ events[Len(events)].info = "ok"
          /\ Len(Gets) = attempt
    /\ fpc = "parse" =>
          /\ events[Len(events)].ev = "GET"
          /\ events[Len(events)].info = "ok"
    /\ \A i \in 1..Len(events) :
          (events[i].ev = "GET" /\ events[i].info = "ok") => i = Len(events)

\* an array arrived on the first of three allowed attempts and the call
\* raised
C11_Witness ==
    /\ fpc = "raised"
    /\ config.max_retries = 3
    /\ attempt = 1
    /\ Len(Gets) = 1
    /\ IsList(response)
    /\ fetch_result.kind = "ApiClientError"

\* the call has ended or has left the retry loop
LoopLeft == fpc \in {"parse", "raised", "returned"}

\* C13: a failed attempt n < max_retries is followed by exactly one sleep
\* before attempt n + 1, the first of 1 second and each next one
\* retry_backoff times the one before (retry_backoff^(n-1)); nothing sleeps
\* after a successful attempt or after the last failed one, so a call that
\* made k requests slept k - 1 times.
C13_BackoffSleeps ==
    /\ \A i \in 1..Len(events) :
          LET e == events[i]
          IN /\ (e.ev = "GET" /\ e.info # "ok" /\ e.n < config.max_retries) =>
                   /\ i + 2 <= Len(events)
                   /\ events[i + 1].ev = "warning"
                   /\ events[i + 2].ev = "sleep"
                   /\ i + 3 <= Len(events) =>
                         (events[i + 3].ev = "GET" /\ events[i + 3].n = e.n + 1)
             /\ (e.ev = "GET" /\ (e.info = "ok" \/ e.n >= config.max_retries)) =>
                   i = Len(events)
             /\ e.ev = "sleep" =>
                   (i > 2 /\ events[i - 2].ev = "GET" /\ events[i - 2].info # "ok")
    /\ \A j \in 1..Len(Sleeps) :
          Sleeps[j].n = IF j = 1 THEN 1
                        ELSE Sleeps[j - 1].n * config.retry_backoff
    /\ \A j \in 1..Len(Gets) : Gets[j].n = j
    /\ (LoopLeft /\ Len(Gets) > 0) => Len(Sleeps) = Len(Gets) - 1
    /\ fpc = "try" => Len(Sleeps) = Len(Gets)

\* two failures and a success with backoff base 3: sleeps of 1 and 3
C13_Witness ==
    /\ fpc = "returned"
    /\ config.retry_backoff = 3
    /\ Len(Gets) = 3
    /\ Len(Sleeps) = 2
    /\ Sleeps[1].n = 1
    /\ Sleeps[2].n = 3

(***************************************************************************)
(* Further properties of main (SpecMain).                                  *)
(***************************************************************************)
HtmlWritten == EventIdx(LAMBDA e : e.ev = "info" /\ e.what = "HTML report written")
HtmlFailed ==
    EventIdx(LAMBDA e : e.ev = "error" /\ e.what = "Failed to write HTML report")

\* what the run has printed of the text report so far
PrintedReport == SelectSeq(events, LAMBDA e : e.ev = "print" /\ e.info = "report")

\* the HTML write is about to be attempted or has been attempted
HtmlStage == pc = "html" \/ HtmlWritten # {} \/ HtmlFailed # {}

\* C12: with both fetches successful and an HTML path configured, the text
\* report is printed in full before the HTML write is attempted; an OSError
\* of the write is logged and the run ends as it does after a successful
\* write, with the printed report left as it was.
C12_HtmlFailureIsHarmless ==
    /\ [](HtmlStage =>
             /\ Truthy(config.html_output)
             /\ SigningOk # {} /\ ValidatorsOk # {}
             /\ report # NoReport
             /\ PrintedReport = print_validator_report(report)
             /\ \A k \in HtmlWritten \cup HtmlFailed :
                   /\ k = Len(events)
                   /\ pc = "done"
                   /\ \A p \in ReportPrints : p < k
             /\ Cardinality(HtmlWritten \cup HtmlFailed) <= 1
             /\ HtmlFailed # {} => html_file = "absent")
    /\ []((pc = "done" /\ ReportPrints # {} /\ Truthy(config.html_output)) =>
             Cardinality(HtmlWritten \cup HtmlFailed) = 1)
    /\ [][pc = "html" =>
             /\ pc' = "done"
             /\ report' = report
             /\ Len(events') = Len(events) + 1
             /\ SubSeq(events', 1, Len(events)) = events
             /\ events'[Len(events')].ev \in {"info", "error"}]_vars

\* a report with rows was printed, the write failed, the run is done
C12_Witness ==
    /\ pc = "done"
    /\ HtmlFailed # {}
    /\ html_file = "absent"
    /\ report # NoReport
    /\ report.total_shown > 0
    /\ \E p \in ReportPrints : events[p].what = "Summary"

=============================================================================
